---- MODULE Spec2Model ----
(***************************************************************************)
(* A model of the identifier-conversion orchestrator of ontology-matcher:  *)
(* OntologyBaseConverter (ontology_formatter.py) and its five entity-type  *)
(* converters (disease, gene, symptom, compound, metabolite), with the     *)
(* mapping services they call (OxO, MyGene, MyChemical, MyDisease) as the   *)
(* environment.                                                            *)
(*                                                                         *)
(* An identifier "MONDO:1" is the record [db |-> "MONDO", v |-> 1]; the    *)
(* list the caller passes may also hold entries that are not strings (nan) *)
(* and strings that do not match the identifier pattern.  Python indices   *)
(* are 0-based and are kept 0-based in every idx field.                    *)
(***************************************************************************)
EXTENDS Integers, Sequences, FiniteSets, TLC

\* ------------------------------------------------------------------ bounds
\* Longest list of entries the caller passes to a converter.
MaxIds == 2
\* Most mappings (curies, rows, docs) the service holds for one identifier.
MaxMappings == 3
\* Most attempts of a run that raise after the service answered (a response
\* with fewer results than identifiers, a dict that cannot be built).
MaxFaults == 1
\* Most rows of the table dedup reads.
MaxEntities == 3
\* The runs of the "ontology" command at work on one output path.
MaxRuns == 2

\* --------------------------------------------------------- program constants
\* OntologyBaseConverter.default_check_batch_size: the ceiling on batch_size.
MaxBatchSize == 500
\* tenacity stop_after_attempt(5) on _fetch_format_data.
MaxAttempts == 5

UNIQUE == "Unique"
MIXTURE == "Mixture"
Strategy == {UNIQUE, MIXTURE}

Converters == {"disease", "gene", "symptom", "compound", "metabolite"}

\* The OntologyType of each converter.  choices keeps the order of the source
\* list and is cut to three databases: the default database and two others.
DISEASE_DICT == [type |-> "Disease", default |-> "MONDO",
                 choices |-> <<"MONDO", "DOID", "MESH">>]
GENE_DICT == [type |-> "Gene", default |-> "ENTREZ",
              choices |-> <<"ENTREZ", "ENSEMBL", "SYMBOL">>]
SYMPTOM_DICT == [type |-> "Symptom", default |-> "MESH",
                 choices |-> <<"SYMP", "MESH", "UMLS">>]
COMPOUND_DICT == [type |-> "Compound", default |-> "DrugBank",
                  choices |-> <<"DrugBank", "PUBCHEM", "CHEBI">>]
METABOLITE_DICT == [type |-> "Metabolite", default |-> "HMDB",
                    choices |-> <<"HMDB", "DrugBank", "PUBCHEM">>]

OntologyTypeOf(c) ==
    CASE c = "disease" -> DISEASE_DICT
      [] c = "gene" -> GENE_DICT
      [] c = "symptom" -> SYMPTOM_DICT
      [] c = "compound" -> COMPOUND_DICT
      [] c = "metabolite" -> METABOLITE_DICT

Range(s) == {s[n] : n \in DOMAIN s}

Databases(c) == Range(OntologyTypeOf(c).choices)
Default(c) == OntologyTypeOf(c).default

\* ------------------------------------------------------------ identifiers
Id(d, n) == [str |-> TRUE, db |-> d, v |-> n]
\* An entry that is not a string (pandas nan).
NaN == [str |-> FALSE, db |-> "", v |-> 0]
\* A string whose prefix is no configured database ("XX:1").
BadPrefix == [str |-> TRUE, db |-> "XX", v |-> 1]

\* The prefixes the caller's identifiers carry: the default database and the
\* first other database an identifier of the entity type is given in.
InputPrefixes(c) ==
    CASE c = "disease" -> {"MONDO", "DOID"}
      [] c = "gene" -> {"ENTREZ", "SYMBOL"}
      [] c = "symptom" -> {"MESH", "SYMP"}
      [] c = "compound" -> {"DrugBank", "PUBCHEM"}
      [] c = "metabolite" -> {"HMDB", "DrugBank"}

IdUniverse(c) == {Id(d, 1) : d \in InputPrefixes(c)}
Entries(c) == IdUniverse(c) \cup {NaN, BadPrefix}

SeqsUpTo(S, n) == UNION {[1..m -> S] : m \in 0..n}

BatchSizes == {1, 2, MaxBatchSize + 1}

\* re.match(r"^(D1|...|Dn):[a-z0-9A-Z\.]+$", id): the prefix is one of the
\* configured databases and the local part is one or more allowed characters
\* (v = 0 stands for a local part that is empty or has another character).
Matches(e, dbs) == e.db \in dbs /\ e.v >= 1

\* filter(lambda x: x and isinstance(x, str), ids)
FilterStr(s) == SelectSeq(s, LAMBDA e : e.str)

\* ------------------------------------------------------- result records
InvalidPrefix == "Invalid prefix"
NoResultsFound == "No results found"
MultipleResults == "Multiple results found"
UniqueMultiple == "The strategy is unique, but multiple results found"

\* FailedId(idx, id, reason)
FailedId(n, x, why) == [idx |-> n, id |-> x, reason |-> why]

\* The value a ConvertedId holds under one database key: the key is absent,
\* None, one string, or a list of strings.
AbsentV == [k |-> "absent", l |-> <<>>]
NoneV == [k |-> "none", l |-> <<>>]
StrV(x) == [k |-> "str", l |-> <<x>>]
ListV(xs) == [k |-> "list", l |-> xs]

\* The metadata a ConvertedId holds: None, no such key, or a dict.
NoMeta == [kind |-> "none", of |-> NaN]
AbsentMeta == [kind |-> "absent", of |-> NaN]
Meta(kind, x) == [kind |-> kind, of |-> x]

\* idx of a converted-id dict that never got the key.
NoIdx == -1

\* ConvertedId.from_args(**converted_id_dict): the dataclass fields idx,
\* raw_id, metadata and every other key as an attribute.
ConvertedId(n, x, m, vs) == [idx |-> n, raw_id |-> x, metadata |-> m, vals |-> vs]

\* ----------------------------------------------------- the mapping service
\* What the service holds for one identifier: how many values it maps to in
\* each database.  The n values of database d are d:1 .. d:n.
Sum3(p, ch) == p[ch[1]] + p[ch[2]] + p[ch[3]]
Profiles(c) ==
    {p \in [Databases(c) -> 0..MaxMappings] :
        Sum3(p, OntologyTypeOf(c).choices) <= MaxMappings}
ZeroProfile(c) == [d \in Databases(c) |-> 0]
Cands(d, n) == [j \in 1..n |-> Id(d, j)]

\* ------------------------------------------------------------- grouping
Min(a, b) == IF a < b THEN a ELSE b
Max(S) == CHOOSE x \in S : \A y \in S : y <= x
Last(s) == s[Len(s)]

\* A slice that always starts at the head of the list.
BatchFirst(s, i0, b) == SubSeq(s, 1, Min(b, Len(s)))

\* self._ids[i : i + self._batch_size]
Batch(s, i0, b) == SubSeq(s, i0 + 1, Min(i0 + b, Len(s)))

\* The keys of a dict in insertion order: each prefix where it first appears.
KeyOrder(s) ==
    LET F[n \in 0..Len(s)] ==
            IF n = 0 THEN <<>>
            ELSE IF s[n].db \in Range(F[n - 1]) THEN F[n - 1]
                 ELSE Append(F[n - 1], s[n].db)
    IN F[Len(s)]

\* make_grouped_ids(ids): id_dict groups the local values by prefix, in list
\* order; id_idx_dict maps the full identifier to the index written last
\* for it.  groups is id_dict.keys().
make_grouped_ids(s) ==
    [id_dict |-> [d \in {s[n].db : n \in DOMAIN s} |->
                    LET sel == SelectSeq(s, LAMBDA e : e.db = d)
                    IN [n \in DOMAIN sel |-> sel[n].v]],
     id_idx_dict |-> [x \in Range(s) |-> Max({n - 1 : n \in {m \in DOMAIN s : s[m] = x}})],
     groups |-> KeyOrder(s)]

NoGroups == [id_dict |-> <<>>, id_idx_dict |-> <<>>, groups |-> <<>>]

\* sorted(self._ids): Python compares the strings "<db>:<value>" character by
\* character; AsciiOrder lists the database names in that order.
AsciiOrder == <<"CHEBI", "DOID", "DrugBank", "ENSEMBL", "ENTREZ", "HMDB",
                "MESH", "MONDO", "PUBCHEM", "SYMBOL", "SYMP", "UMLS">>
Rank(d) == CHOOSE n \in DOMAIN AsciiOrder : AsciiOrder[n] = d
IdLeq(a, b) == Rank(a.db) < Rank(b.db) \/ (a.db = b.db /\ a.v <= b.v)
Insert(s, x) ==
    LET n == Cardinality({m \in DOMAIN s : IdLeq(s[m], x)})
    IN SubSeq(s, 1, n) \o <<x>> \o SubSeq(s, n + 1, Len(s))
sorted(s) ==
    LET F[n \in 0..Len(s)] == IF n = 0 THEN <<>> ELSE Insert(F[n - 1], s[n])
    IN F[Len(s)]

\* ------------------------------------------------- deciding one identifier
\* [x for x in self.databases if x != prefix]
Difference(c, prefix) == SelectSeq(OntologyTypeOf(c).choices, LAMBDA x : x # prefix)

\* list_or_str of GeneOntologyConverter._format_response
list_or_str(xs) == IF Len(xs) = 1 THEN StrV(xs[1]) ELSE ListV(xs)

\* A default-database check that tolerates two values.
DefaultAmbiguousOffByOne(c, choice, n) == choice = Default(c) /\ n > 2

\* A default-database check that never rejects.
DefaultAmbiguousNever(c, choice, n) == FALSE

\* if choice == self.default_database and len(converted_ids) > 1
DefaultAmbiguous(c, choice, n) == choice = Default(c) /\ n > 1

\* if self._strategy == Strategy.UNIQUE and len(converted_ids) > 1
UniqueAmbiguous(strat, n) == strat = UNIQUE /\ n > 1

\* The loop "for choice in difference" of _format_response (disease, symptom,
\* gene): the dict built so far, the idx key, and the reason of the first
\* check that failed, after which the loop is left.  gene is TRUE for the
\* gene converter, whose matched list is non-empty for every column of a row
\* that was found and whose single values are stored as strings.
FormatChoices(c, strat, x, index, cand, gene, m) ==
    LET diff == Difference(c, x.db)
        start == [vals |-> [d \in Databases(c) |-> IF d = x.db THEN StrV(x) ELSE AbsentV],
                  idx |-> NoIdx, meta |-> m, reason |-> ""]
        step(acc, choice) ==
            IF acc.reason # "" THEN acc
            ELSE IF cand[choice] > 0 \/ gene
            THEN LET v == IF cand[choice] = 0 THEN NoneV
                          ELSE IF gene THEN list_or_str(Cands(choice, cand[choice]))
                          ELSE ListV(Cands(choice, cand[choice]))
                     acc2 == [acc EXCEPT !.vals[choice] = v, !.idx = index]
                 IN IF DefaultAmbiguous(c, choice, cand[choice])
                    THEN [acc2 EXCEPT !.reason = MultipleResults]
                    ELSE IF UniqueAmbiguous(strat, cand[choice])
                    THEN [acc2 EXCEPT !.reason = UniqueMultiple]
                    ELSE acc2
            ELSE [acc EXCEPT !.vals[choice] = NoneV]
        F[n \in 0..Len(diff)] == IF n = 0 THEN start ELSE step(F[n - 1], diff[n])
    IN F[Len(diff)]

\* What processing one identifier does: out is "failed" (rec is the FailedId
\* appended), "converted" (rec is the ConvertedId appended) or "raised" (an
\* exception left the loop, nothing appended).
Failed(n, x, why) == [out |-> "failed", failed |-> FailedId(n, x, why),
                      converted |-> ConvertedId(NoIdx, x, NoMeta, <<>>), err |-> ""]
Converted(n, x, m, vs) == [out |-> "converted", failed |-> FailedId(n, x, ""),
                           converted |-> ConvertedId(n, x, m, vs), err |-> ""]
Raised(x, e) == [out |-> "raised", failed |-> FailedId(NoIdx, x, ""),
                 converted |-> ConvertedId(NoIdx, x, NoMeta, <<>>), err |-> e]

\* self.add_converted_id(converted_id_dict) of the converters, as the base
\* class defines add_converted_id_dict: ConvertedId.from_args(**dict) is
\* appended, and the dataclass initializer raises TypeError without idx.
add_converted_id(x, d) ==
    IF d.idx = NoIdx THEN Raised(x, "TypeError")
    ELSE Converted(d.idx, x, d.meta, d.vals)

\* DiseaseOntologyConverter._format_response, the body of the loop over
\* batch_ids for one identifier whose search result holds cand.
DiseaseFormatOne(c, strat, x, index, cand) ==
    IF x.db \notin Databases(c) THEN Failed(index, x, InvalidPrefix)
    ELSE IF Sum3(cand, OntologyTypeOf(c).choices) = 0
    THEN Failed(index, x, NoResultsFound)
    ELSE LET d == FormatChoices(c, strat, x, index, cand, FALSE, NoMeta)
         IN IF d.reason # "" THEN Failed(index, x, d.reason)
            ELSE add_converted_id(x, d)

\* SymptomOntologyConverter._format_response: as the disease converter, but
\* the dict itself is appended to self._converted_ids.
SymptomFormatOne(c, strat, x, index, cand) ==
    IF x.db \notin Databases(c) THEN Failed(index, x, InvalidPrefix)
    ELSE IF Sum3(cand, OntologyTypeOf(c).choices) = 0
    THEN Failed(index, x, NoResultsFound)
    ELSE LET d == FormatChoices(c, strat, x, index, cand, FALSE, AbsentMeta)
         IN IF d.reason # "" THEN Failed(index, x, d.reason)
            ELSE Converted(d.idx, x, d.meta, d.vals)

\* GeneOntologyConverter._format_response for one identifier: the rows of the
\* frame whose own column equals the identifier's value are its result.
GeneFormatOne(c, strat, x, index, cand) ==
    IF x.db \notin Databases(c) THEN Failed(index, x, InvalidPrefix)
    ELSE IF cand[x.db] = 0 THEN Failed(index, x, NoResultsFound)
    ELSE LET d == FormatChoices(c, strat, x, index, cand, TRUE, Meta("row", x))
         IN IF d.reason # "" THEN Failed(index, x, d.reason)
            ELSE add_converted_id(x, d)

\* MyChemical.parse for one item of q, then the loop body of
\* CompoundOntologyConverter.convert / MetaboliteOntologyConverter.convert.
\* index is the item's index in the group that was queried.
MyChemicalParseOne(c, x, index, cand) ==
    IF Sum3(cand, OntologyTypeOf(c).choices) = 0
    THEN [idx |-> index, meta |-> Meta("placeholder", x), reason |-> "",
          vals |-> [d \in Databases(c) |-> IF d = x.db THEN StrV(x) ELSE AbsentV]]
    ELSE [idx |-> index, meta |-> Meta("doc", x), reason |-> "",
          vals |-> [d \in Databases(c) |-> ListV(Cands(d, cand[d]))]]

CompoundFormatOne(c, strat, x, index, cand) ==
    LET result == MyChemicalParseOne(c, x, index, cand)
        default_id == result.vals[Default(c)]
    IN IF default_id.k = "list" /\ Len(default_id.l) > 1
       THEN Failed(result.idx, x, MultipleResults)
       ELSE add_converted_id(x, result)

FormatOneOf(c, strat, x, index, cand) ==
    CASE c = "disease" -> DiseaseFormatOne(c, strat, x, index, cand)
      [] c = "symptom" -> SymptomFormatOne(c, strat, x, index, cand)
      [] c = "gene" -> GeneFormatOne(c, strat, x, index, cand)
      [] c \in {"compound", "metabolite"} -> CompoundFormatOne(c, strat, x, index, cand)

VARIABLES
    conv,           \* which converter class is constructed
    strategy,       \* self._strategy
    batch_size,     \* self._batch_size
    input,          \* the list the caller passed
    ids,            \* self._ids
    pc,             \* where the run is
    error,          \* the exception that ended the run, "" if none
    reported,       \* the violations the validation error lists
    called,         \* whether any request went to a mapping service
    converted_ids,  \* self._converted_ids
    failed_ids,     \* self._failed_ids
    i,              \* the loop variable of convert: offset of the batch
    u,              \* compound, metabolite: index of the group being queried
    k,              \* index of the identifier being processed in its batch or group
    attempt,        \* tenacity's attempt number for the batch
    nres,           \* how many results the last response of the service holds
    faults,         \* how many attempts raised after the service answered
    grouped,        \* the GroupedIds of the last make_grouped_ids call
    down,           \* the mapping service answers the batch with no result at every attempt
    mydisease,      \* the identifiers MyDisease holds a doc for
    cur,            \* the identifier processed last, what the service held for it, the
                    \* outcome, and how many results the response it was read from held
    data,           \* formatter: self._data, the rows of the caller's file
    formatted_data, \* formatter: self._formatted_data (<<>> is None)
    failed_formatted_data,  \* formatter: self._failed_formatted_data (<<>> is None)
    files,          \* the output files: the table, the .failed.tsv table, the .json snapshot
    loaded,         \* what json.load with CustomJSONDecoder returned for the snapshot
    entities,       \* dedup: the frame read from the input file
    final_df,       \* dedup: the frame written to the output file
    tries,          \* disease: the attempt of tenacity around _fetch_ids
    requests,       \* disease, symptom: the requests sent to OxO for the batch asked last
    runs            \* the runs of the "ontology" command on one output path

vars == <<conv, strategy, batch_size, input, ids, pc, error, reported, called,
          converted_ids, failed_ids, i, u, k, attempt, nres, faults, grouped, down,
          mydisease, cur, data, formatted_data, failed_formatted_data, files, loaded,
          entities, final_df, tries, requests, runs>>

\* The state of the formatter, of the output files and of dedup.
tables == <<data, formatted_data, failed_formatted_data, files, loaded, entities, final_df,
            runs>>

\* The state of the retry around the requests to OxO.
calls == <<tries, requests>>
NoCalls == tries = 1 /\ requests = 0

\* No file is written and no table is read or built.
NoFiles == [tsv |-> <<>>, failed |-> <<>>, json |-> <<>>]
NoTables ==
    /\ data = <<>>
    /\ formatted_data = <<>>
    /\ failed_formatted_data = <<>>
    /\ files = NoFiles
    /\ loaded = <<>>
    /\ entities = <<>>
    /\ final_df = <<>>
    /\ runs = <<>>

config == <<conv, strategy, batch_size, input, mydisease>>

NoCur == [id |-> NaN, cand |-> <<>>, out |-> "none", nres |-> 0]

Init ==
    /\ conv \in Converters
    /\ strategy \in Strategy
    /\ batch_size \in BatchSizes
    /\ input \in SeqsUpTo(Entries(conv), MaxIds)
    /\ ids = <<>>
    /\ pc = "new"
    /\ error = ""
    /\ reported = <<>>
    /\ called = FALSE
    /\ converted_ids = <<>>
    /\ failed_ids = <<>>
    /\ i = 0
    /\ u = 0
    /\ k = 0
    /\ attempt = 1
    /\ nres = 0
    /\ faults = 0
    /\ grouped = NoGroups
    /\ down = FALSE
    /\ mydisease \in (IF conv = "disease" THEN SUBSET {Id(Default(conv), 1)} ELSE {{}})
    /\ cur = NoCur
    /\ NoTables
    /\ NoCalls

\* A validation that stops at the first entry that fails the pattern.
CheckIdsFirst(s, dbs) ==
    LET bad == {n \in DOMAIN s : ~Matches(s[n], dbs)}
    IN IF bad = {} THEN <<>>
       ELSE LET n == CHOOSE m \in bad : \A j \in bad : m <= j
            IN <<[idx |-> n - 1, id |-> s[n]]>>

\* OntologyBaseConverter._check_ids: the entries of self._ids that fail the
\* pattern, each with its index in self._ids, in list order.
CheckIds(s, dbs) ==
    LET F[n \in 0..Len(s)] ==
            IF n = 0 THEN <<>>
            ELSE IF ~Matches(s[n], dbs)
                 THEN Append(F[n - 1], [idx |-> n - 1, id |-> s[n]])
                 ELSE F[n - 1]
    IN F[Len(s)]

\* check_batch_size as CompoundOntologyConverter overrides it: it runs
\* default_check_batch_size.  The override of the other converters is taken
\* to be the same (the method of the base class raises NotImplementedError).
BatchSizeOk(c, b) == b <= MaxBatchSize

\* OntologyBaseConverter.__init__
Construct ==
    /\ pc = "new"
    /\ LET kept == FilterStr(input)
           failed == CheckIds(kept, Databases(conv))
       IN /\ ids' = kept
          /\ IF ~BatchSizeOk(conv, batch_size)
             THEN /\ pc' = "failed"
                  /\ error' = "BatchSize"
                  /\ reported' = <<>>
             ELSE IF Len(failed) > 0
                  THEN /\ pc' = "failed"
                       /\ error' = "Validation"
                       /\ reported' = failed
                  ELSE /\ pc' = "ready"
                       /\ error' = ""
                       /\ reported' = <<>>
    /\ UNCHANGED <<config, tables, calls, called, converted_ids, failed_ids, i, u, k, attempt,
                   nres, faults, grouped, down, cur>>

Chem == {"compound", "metabolite"}
Oxo == {"disease", "symptom"}

\* convert() is entered: the compound and metabolite converters sort self._ids.
StartConvert ==
    /\ pc = "ready"
    /\ pc' = "fetch"
    /\ ids' = IF conv \in Chem THEN sorted(ids) ELSE ids
    /\ UNCHANGED <<config, tables, calls, error, reported, called, converted_ids, failed_ids,
                   i, u, k, attempt, nres, faults, grouped, down, cur>>

\* tenacity's @retry(stop=stop_after_attempt(5)) around _fetch_format_data:
\* an exception starts the function again, the fifth one ends convert with
\* a RetryError.
RetryErrorOf(e) ==
    CASE e = "NoResultException" -> "RetryError(NoResultException)"
      [] e = "ConnectionError" -> "RetryError(ConnectionError)"
      [] e = "RetryError" -> "RetryError(RetryError)"
      [] e = "IndexError" -> "RetryError(IndexError)"
      [] e = "TypeError" -> "RetryError(TypeError)"

Retry(e) ==
    IF attempt >= MaxAttempts
    THEN /\ pc' = "aborted"
         /\ error' = RetryErrorOf(e)
         /\ attempt' = attempt
    ELSE /\ pc' = "fetch"
         /\ error' = ""
         /\ attempt' = attempt + 1

\* The lists after processing one identifier.
Record(r) ==
    /\ failed_ids' = IF r.out = "failed" THEN Append(failed_ids, r.failed) ELSE failed_ids
    /\ converted_ids' = IF r.out = "converted" THEN Append(converted_ids, r.converted)
                        ELSE converted_ids

\* The requests sent to OxO for the batch at offset i before the one being
\* sent: the first request of a batch is the one made at the first attempt of
\* _fetch_format_data and of _fetch_ids.
Sent == IF attempt = 1 /\ tries = 1 THEN 0 ELSE requests

\* disease, symptom: requests.post of _fetch_ids raises because the service
\* cannot be reached.  In the disease converter _fetch_ids is itself under
\* @retry(stop=stop_after_attempt(5)): the request is sent again, and the
\* fifth failure raises RetryError into _fetch_format_data, whose own @retry
\* starts it again.  In the symptom converter _fetch_ids is not decorated and
\* the exception goes to the @retry of _fetch_format_data at once.
OxoRequestFails ==
    /\ pc = "fetch"
    /\ conv \in Oxo
    /\ i < Len(ids)
    /\ requests' = Sent + 1
    /\ IF conv = "disease" /\ tries < MaxAttempts
       THEN /\ tries' = tries + 1
            /\ UNCHANGED <<pc, error, attempt>>
       ELSE /\ tries' = 1
            /\ Retry(IF conv = "disease" THEN "RetryError" ELSE "ConnectionError")
    /\ called' = TRUE
    /\ UNCHANGED <<config, tables, ids, reported, converted_ids, failed_ids, i, u, k, nres,
                   faults, grouped, down, cur>>

\* disease, symptom: _fetch_ids inside _fetch_format_data, and the check of
\* _format_response that the response holds any search result.
OxoFetch ==
    /\ pc = "fetch"
    /\ conv \in Oxo
    /\ i < Len(ids)
    /\ LET b == Batch(ids, i, batch_size)
       IN \/ \* an outage: no search result at this attempt nor at any later one
             /\ attempt = 1 \/ down
             /\ down' = TRUE
             /\ nres' = 0
             /\ faults' = faults
             /\ Retry("NoResultException")
          \/ \* no search result this once
             /\ ~down
             /\ faults < MaxFaults
             /\ down' = FALSE
             /\ nres' = 0
             /\ faults' = faults + 1
             /\ Retry("NoResultException")
          \/ \* fewer search results than identifiers
             /\ ~down
             /\ faults < MaxFaults
             /\ down' = FALSE
             /\ nres' \in 1..(Len(b) - 1)
             /\ faults' = faults + 1
             /\ pc' = "format"
             /\ UNCHANGED <<attempt, error>>
          \/ \* a search result for every identifier
             /\ ~down
             /\ down' = FALSE
             /\ nres' = Len(b)
             /\ faults' = faults
             /\ pc' = "format"
             /\ UNCHANGED <<attempt, error>>
    /\ called' = TRUE
    /\ k' = 0
    /\ requests' = Sent + 1
    /\ tries' = 1
    /\ UNCHANGED <<config, tables, ids, reported, converted_ids, failed_ids, i, u, grouped, cur>>

\* disease, symptom: one turn of the loop over batch_ids in _format_response.
OxoFormat ==
    /\ pc = "format"
    /\ conv \in Oxo
    /\ LET b == Batch(ids, i, batch_size)
           x == b[k + 1]
       IN IF k >= nres
          THEN \* search_results[index] is out of range
               /\ Retry("IndexError")
               /\ k' = 0
               /\ cur' = [id |-> x, cand |-> ZeroProfile(conv), out |-> "raised", nres |-> nres]
               /\ UNCHANGED <<converted_ids, failed_ids, i, faults>>
          ELSE \E cand \in Profiles(conv) :
                 LET r == FormatOneOf(conv, strategy, x, k, cand)
                 IN /\ r.out = "raised" => faults < MaxFaults
                    /\ faults' = IF r.out = "raised" THEN faults + 1 ELSE faults
                    /\ Record(r)
                    /\ cur' = [id |-> x, cand |-> cand, out |-> r.out, nres |-> nres]
                    /\ IF r.out = "raised"
                       THEN Retry(r.err) /\ k' = 0 /\ i' = i
                       ELSE IF k + 1 < Len(b)
                       THEN /\ k' = k + 1
                            /\ UNCHANGED <<pc, error, attempt, i>>
                       ELSE IF conv = "disease"
                       THEN /\ pc' = "metadata"
                            /\ k' = 0
                            /\ UNCHANGED <<error, attempt, i>>
                       ELSE /\ pc' = "fetch"
                            /\ k' = 0
                            /\ attempt' = 1
                            /\ i' = i + batch_size
                            /\ error' = ""
    /\ UNCHANGED <<config, tables, calls, ids, reported, called, u, nres, grouped, down>>

\* get_id of MyDisease.update_metadata: the single value a ConvertedId holds
\* in the database, if it holds exactly one.
HasId(c, database) ==
    LET v == c.vals[database]
    IN (v.k = "list" /\ Len(v.l) = 1) \/ v.k = "str"
get_id(c, database) == c.vals[database].l[1]

\* MyDisease.update_metadata(converted_ids, database): selected_id_pair is keyed
\* by raw id, index_id_dict by the selected value; the service is asked once
\* per group of values, and MyDisease.parse yields an Entity for every value
\* asked, filled from the doc when the service found one (found) and empty
\* otherwise.  The Entity goes to the ConvertedId index_id_dict names.
update_metadata(cs, database, found) ==
    LET S == {j \in DOMAIN cs : HasId(cs[j], database)}
        lastOf(r) == Max({j \in S : cs[j].raw_id = r})
        \* the position of raw id r among the keys of selected_id_pair
        firstOf(r) == CHOOSE j \in S : cs[j].raw_id = r /\ \A m \in S : cs[m].raw_id = r => j <= m
        raws == {cs[j].raw_id : j \in S}
        target(r) == get_id(cs[lastOf(r)], database)
        targets == {target(r) : r \in raws}
        \* index_id_dict[t]: the pair written last for t
        winner(t) == CHOOSE r \in raws : target(r) = t /\
                        \A q \in raws : target(q) = t => firstOf(q) <= firstOf(r)
        hit == {lastOf(winner(t)) : t \in {t2 \in targets : t2.db \in {"MONDO", "DOID"}}}
    IN [j \in DOMAIN cs |->
          IF j \in hit
          THEN LET t == get_id(cs[j], database)
               IN [cs[j] EXCEPT !.metadata =
                     Meta(IF t \in found THEN "entity" ELSE "placeholder", t)]
          ELSE cs[j]]

\* disease: after _fetch_format_data, MyDisease.update_metadata on the whole
\* list, then the next batch.
UpdateMetadata ==
    /\ pc = "metadata"
    /\ converted_ids' = update_metadata(converted_ids, Default(conv), mydisease)
    /\ called' = TRUE
    /\ pc' = "fetch"
    /\ attempt' = 1
    /\ i' = i + batch_size
    /\ UNCHANGED <<config, tables, calls, ids, error, reported, failed_ids, u, k, nres, faults, grouped,
                   down, cur>>

\* gene: _fetch_ids, one MyGene request per prefix group of the batch.  A
\* request that is answered with no row leaves a frame without the query
\* column, which raises KeyError.
GeneFetch ==
    /\ pc = "fetch"
    /\ conv = "gene"
    /\ i < Len(ids)
    /\ grouped' = make_grouped_ids(Batch(ids, i, batch_size))
    /\ called' = TRUE
    /\ \E n \in 0..1 :
         /\ nres' = n
         /\ IF n = 0
            THEN pc' = "aborted" /\ error' = "KeyError"
            ELSE pc' = "format" /\ error' = ""
    /\ k' = 0
    /\ UNCHANGED <<config, tables, calls, ids, reported, converted_ids, failed_ids, i, u, attempt, faults,
                   down, cur>>

\* gene: the rows of the frame are selected by the identifier's own column,
\* which holds the value asked for; an identifier without a row has no value
\* in any column.
GeneProfiles(c, x) ==
    {p \in Profiles(c) : p[x.db] <= 1 /\ (p[x.db] = 0 => p = ZeroProfile(c))}

\* gene: one turn of the loop over batch_ids in _format_response.
GeneFormat ==
    /\ pc = "format"
    /\ conv = "gene"
    /\ LET b == Batch(ids, i, batch_size)
           x == b[k + 1]
       IN \E cand \in GeneProfiles(conv, x) :
            LET r == FormatOneOf(conv, strategy, x, k, cand)
            IN /\ Record(r)
               /\ cur' = [id |-> x, cand |-> cand, out |-> r.out, nres |-> nres]
               /\ IF r.out = "raised"
                  THEN pc' = "aborted" /\ error' = r.err /\ UNCHANGED <<k, i>>
                  ELSE IF k + 1 < Len(b)
                  THEN k' = k + 1 /\ UNCHANGED <<pc, error, i>>
                  ELSE pc' = "fetch" /\ k' = 0 /\ i' = i + batch_size /\ error' = ""
    /\ UNCHANGED <<config, tables, calls, ids, reported, called, u, attempt, nres, faults, grouped, down>>

\* compound, metabolite: make_grouped_ids for a new batch and the MyChemical
\* request for the next group; nres = 0 is an answer without any doc.
ChemFetch ==
    /\ pc = "fetch"
    /\ conv \in Chem
    /\ i < Len(ids)
    /\ grouped' = IF u = 0 THEN make_grouped_ids(Batch(ids, i, batch_size)) ELSE grouped
    /\ called' = TRUE
    /\ nres' \in 0..1
    /\ pc' = "format"
    /\ k' = 0
    /\ UNCHANGED <<config, tables, calls, ids, error, reported, converted_ids, failed_ids, i, u,
                   attempt, faults, down, cur>>

\* compound, metabolite: MyChemical.parse and the loop "for result in results"
\* for one item of the group.
ChemFormat ==
    /\ pc = "format"
    /\ conv \in Chem
    /\ LET g == grouped.groups[u + 1]
           vs == grouped.id_dict[g]
           x == Id(g, vs[k + 1])
       IN \E cand \in (IF nres = 0 THEN {ZeroProfile(conv)} ELSE Profiles(conv)) :
            LET r == FormatOneOf(conv, strategy, x, k, cand)
            IN /\ Record(r)
               /\ cur' = [id |-> x, cand |-> cand, out |-> r.out, nres |-> nres]
               /\ IF r.out = "raised"
                  THEN pc' = "aborted" /\ error' = r.err /\ UNCHANGED <<k, u, i>>
                  ELSE IF k + 1 < Len(vs)
                  THEN k' = k + 1 /\ UNCHANGED <<pc, error, u, i>>
                  ELSE IF u + 1 < Len(grouped.groups)
                  THEN pc' = "fetch" /\ k' = 0 /\ u' = u + 1 /\ UNCHANGED <<error, i>>
                  ELSE pc' = "fetch" /\ k' = 0 /\ u' = 0 /\ i' = i + batch_size
                       /\ UNCHANGED error
    /\ UNCHANGED <<config, tables, calls, ids, reported, called, attempt, nres, faults, grouped, down>>

\* convert() returns the ConversionResult once the loop over batches ends.
Return ==
    /\ pc = "fetch"
    /\ i >= Len(ids)
    /\ pc' = "returned"
    /\ UNCHANGED <<config, tables, calls, ids, error, reported, called, converted_ids, failed_ids,
                   i, u, k, attempt, nres, faults, grouped, down, cur>>

Next ==
    \/ Construct
    \/ StartConvert
    \/ OxoFetch
    \/ OxoFormat
    \/ UpdateMetadata
    \/ GeneFetch
    \/ GeneFormat
    \/ ChemFetch
    \/ ChemFormat
    \/ Return

Spec == Init /\ [][Next]_vars

\* ------------------------------------------------------------------------
\* Construction and the first requests: the converter is built and convert()
\* runs up to the answer of the mapping service.
NextConstruct ==
    \/ Construct
    \/ StartConvert
    \/ OxoFetch
    \/ GeneFetch
    \/ ChemFetch

SpecConstruct == Init /\ [][NextConstruct]_vars

\* ------------------------------------------------------------------------
\* The decision for one identifier: convert() of a converter that was given
\* one valid identifier has the service's answer and processes it.
InitFormat ==
    /\ conv \in Converters
    /\ strategy \in Strategy
    /\ batch_size = 1
    /\ input \in {<<x>> : x \in IdUniverse(conv)}
    /\ ids = input
    /\ pc = "format"
    /\ error = ""
    /\ reported = <<>>
    /\ called = TRUE
    /\ converted_ids = <<>>
    /\ failed_ids = <<>>
    /\ i = 0
    /\ u = 0
    /\ k = 0
    /\ attempt = 1
    /\ nres = 1
    /\ faults = 0
    /\ grouped = IF conv \in Oxo THEN NoGroups ELSE make_grouped_ids(input)
    /\ down = FALSE
    /\ mydisease \in (IF conv = "disease" THEN SUBSET {Id(Default(conv), 1)} ELSE {{}})
    /\ cur = NoCur
    /\ NoTables
    /\ NoCalls

NextFormat ==
    \/ OxoFormat
    \/ GeneFormat
    \/ ChemFormat

SpecFormat == InitFormat /\ [][NextFormat]_vars

\* ------------------------------------------------------------------------
\* Properties of the decision for one identifier (SpecFormat).

\* The identifier processed last was decided on an answer of the service.
Decided == cur.out \in {"failed", "converted"}
\* The databases other than the identifier's own: the ones it is mapped to.
TargetDatabases == Databases(conv) \ {cur.id.db}
\* Only the FailedId of the identifier processed last was recorded.
OnlyFailed ==
    /\ cur.out = "failed"
    /\ converted_ids = <<>>
    /\ Len(failed_ids) = 1
    /\ failed_ids[1].id = cur.id
\* Only the ConvertedId of the identifier processed last was recorded.
OnlyConverted ==
    /\ cur.out = "converted"
    /\ failed_ids = <<>>
    /\ Len(converted_ids) = 1
    /\ converted_ids[1].raw_id = cur.id

C2_StrategyDecides ==
    LET many == {d \in TargetDatabases : cur.cand[d] > 1}
    IN /\ (Decided /\ strategy = UNIQUE /\ many # {}) => OnlyFailed
       /\ (Decided /\ strategy = MIXTURE /\ many # {} /\ Default(conv) \notin many)
            => /\ OnlyConverted
               /\ \A d \in many :
                    converted_ids[1].vals[d] = ListV(Cands(d, cur.cand[d]))

\* C3 (as stated, the case it names): every converter rejects, under UNIQUE,
\* an identifier with more than one value in a database other than the
\* default one.
C3_EveryConverterRejectsUnderUnique ==
    (Decided /\ strategy = UNIQUE
        /\ \E d \in TargetDatabases \ {Default(conv)} : cur.cand[d] > 1)
        => cur.out = "failed"

\* The gene converter processed SYMBOL:1, for which the service holds one row
\* per ENTREZ value and two ENTREZ values.
Tp53 ==
    /\ conv = "gene"
    /\ input = <<Id("SYMBOL", 1)>>
    /\ cur.id = Id("SYMBOL", 1)
    /\ cur.cand["SYMBOL"] = 1
    /\ cur.cand["ENTREZ"] = 2

\* C4 (as stated): SYMBOL:TP53 with two ENTREZ values gives, under MIXTURE, a
\* ConvertedId holding the two values as a list under ENTREZ and no FailedId,
\* and under UNIQUE a FailedId with a multiple-results reason.
C4_Tp53AsStated ==
    Tp53 =>
        IF strategy = MIXTURE
        THEN /\ OnlyConverted
             /\ converted_ids[1].vals["ENTREZ"] = ListV(Cands("ENTREZ", 2))
        ELSE /\ OnlyFailed
             /\ failed_ids[1].reason \in {MultipleResults, UniqueMultiple}

\* C4 (amended): SYMBOL:TP53 with two ENTREZ values gives, under MIXTURE as
\* under UNIQUE, one FailedId with the reason "Multiple results found" and no
\* ConvertedId.
C4_Tp53FailsUnderBoth ==
    Tp53 => /\ OnlyFailed
            /\ failed_ids[1] = FailedId(0, Id("SYMBOL", 1), MultipleResults)

C4_Witness ==
    /\ Tp53
    /\ strategy = MIXTURE
    /\ failed_ids = <<FailedId(0, Id("SYMBOL", 1), MultipleResults)>>
    /\ converted_ids = <<>>

\* ------------------------------------------------------------------------
\* Properties of construction (SpecConstruct).

\* The entries of the caller's list that are no string or fail the pattern.
Offending(s, dbs) == SelectSeq(s, LAMBDA e : ~e.str \/ ~Matches(e, dbs))
\* The entries the validation error lists.
ReportedIds == [n \in DOMAIN reported |-> reported[n].id]
\* Construction ended with the one error that lists exactly the entries es,
\* and nothing was asked of a mapping service or recorded.
FailsListing(es) ==
    /\ pc = "failed"
    /\ error = "Validation"
    /\ ReportedIds = es
    /\ ~called
    /\ converted_ids = <<>>
    /\ failed_ids = <<>>

Count(s, x) == Cardinality({n \in DOMAIN s : s[n] = x})
RawIds == [n \in DOMAIN converted_ids |-> converted_ids[n].raw_id]
FailedRawIds == [n \in DOMAIN failed_ids |-> failed_ids[n].id]

\* C5 (as stated): when convert returns, every position of the id list is in
\* exactly one of converted_ids and failed_ids, so that their lengths add up
\* to the length of the id list.
C5_EveryPositionOnce ==
    pc = "returned" =>
        /\ Len(converted_ids) + Len(failed_ids) = Len(ids)
        /\ \A x \in Range(ids) :
             Count(RawIds, x) + Count(FailedRawIds, x) = Count(ids, x)

\* C6 (as stated): in the result convert returns for a list of strings, the
\* idx of every ConvertedId and FailedId is the index of its raw id in the
\* caller's list, also when the list is split over batches or prefix groups.
C6_IdxIsInputIndex ==
    (pc = "returned" /\ \A n \in DOMAIN input : input[n].str) =>
        /\ \A n \in DOMAIN converted_ids :
             /\ converted_ids[n].idx \in 0..(Len(input) - 1)
             /\ input[converted_ids[n].idx + 1] = converted_ids[n].raw_id
        /\ \A n \in DOMAIN failed_ids :
             /\ failed_ids[n].idx \in 0..(Len(input) - 1)
             /\ input[failed_ids[n].idx + 1] = failed_ids[n].id

\* C7 (as stated): for a validated list, repeated identifiers allowed, the
\* id_idx_dict of make_grouped_ids is a bijection between its keys and the
\* positions 0 .. len(ids) - 1.
C7_IdIdxDictIsBijection ==
    (pc = "format" /\ conv \notin Oxo) =>
        LET b == Batch(ids, i, batch_size)
            m == grouped.id_idx_dict
        IN /\ grouped = make_grouped_ids(b)
           /\ {m[x] : x \in DOMAIN m} = 0..(Len(b) - 1)
           /\ \A x, y \in DOMAIN m : m[x] = m[y] => x = y

\* C9 (as stated): in every converter an answer without any usable result
\* for a batch ends convert with the NoResult error (as tenacity hands it on
\* after the last attempt), and no identifier of the batch is recorded.
C9_EmptyAnswerEndsConvert ==
    /\ (Decided => cur.nres > 0)
    /\ (pc = "aborted" /\ nres = 0)
         => error \in {"NoResultException", "RetryError(NoResultException)"}

\* C10 (as stated): in every converter an identifier for which an answered
\* batch holds no mapping is recorded as a FailedId with the reason
\* "No results found" and not as a ConvertedId.
C10_NoMappingIsFailedId ==
    (Decided /\ cur.nres > 0 /\ cur.cand = ZeroProfile(conv)) =>
        /\ cur.out = "failed"
        /\ failed_ids # <<>>
        /\ Last(failed_ids).id = cur.id
        /\ Last(failed_ids).reason = NoResultsFound

\* ------------------------------------------------------------------------
\* The record formatter: BaseOntologyFormatter and the five entity-type
\* formatters, run as the "ontology" command runs them (save_to_json, format,
\* write) on the ConversionResult convert() returned for the ids of the file.
\*
\* A column that holds a list joined with "|" is the set of the items of the
\* list; the items of synonyms and pmids are written as records of the same
\* shape as identifiers.  The order of the items in the joined string is the
\* iteration order of a Python set and is not represented.  Of the text
\* columns, name is carried; description is overlaid as name is.
EmptyStr == [str |-> TRUE, db |-> "", v |-> 0]
Synonym(n) == Id("synonym", n)
Pmid(n) == Id("pmid", n)
Xref(n) == Id("OMIM", n)

\* A row of a table: the columns of BaseOntologyFileFormat that are carried,
\* and the two columns format adds (raw_id = NaN and reason = "": the row
\* has no such key).
Row(x, nm, lb, rs, syn, pm, xr) ==
    [id |-> x, name |-> nm, label |-> lb, resource |-> rs, synonyms |-> syn,
     pmids |-> pm, xrefs |-> xr, raw_id |-> NaN, reason |-> ""]

\* _read_file: the rows of the caller's file for one identifier, with the
\* optional columns empty (fillna("")) or filled.
InputRows(c) ==
    {Row(x, "file name", "file label", "file resource", {}, {}, {}) : x \in IdUniverse(c)}
    \cup {Row(x, "file name", "file label", "file resource",
              {Synonym(0)}, {Pmid(0)}, {Xref(0)}) : x \in IdUniverse(c)}

\* What a metadata dict holds.  MyDisease.parse and MyChemical.parse fill an
\* entity or doc from the service ("entity", "doc") and leave the values of
\* a placeholder empty; the metadata of a gene is the row of the MyGene frame,
\* which has none of the keys synonyms, xrefs, pmids.
MetaTruthy(m) == m.kind \in {"entity", "placeholder", "row", "doc"}
MetaName(m) == IF m.kind \in {"entity", "doc", "row"} THEN "service name" ELSE ""
MetaSynonyms(m) == IF m.kind \in {"entity", "doc"} THEN {Synonym(1)} ELSE {}
MetaXrefs(m) == IF m.kind \in {"entity", "doc"} THEN {Xref(1)} ELSE {}
MetaPmids(m) == IF m.kind = "doc" THEN {Pmid(1)} ELSE {}

\* BaseOntologyFormatter.concat: list(set(x + y)), a string made a list of one.
concat(x, y) == x \cup y

\* BaseOntologyFormatter.join_lst: the items split on "|", deduplicated, the
\* empty ones dropped.
join_lst(lst) == {t \in lst : t # EmptyStr}

\* BaseOntologyFormatter.get_alias_ids: the values the ConvertedId holds in
\* the databases other than the default one.
get_alias_ids(c, cv) ==
    {t \in UNION {Range(cv.vals[d].l) : d \in Databases(c) \ {Default(c)}} : t # EmptyStr}

\* BaseOntologyFormatter.get_raw_record: the rows of self._data with the id.
get_raw_record(d, x) == SelectSeq(d, LAMBDA r : r.id = x)

\* id is None: the ConvertedId has no such attribute, or it is None.
IsNone(v) == v.k \in {"absent", "none"}

\* A check that sends a list to the failed table only from three values on.
IsMultipleOffByOne(v) == v.k = "list" /\ Len(v.l) > 2

\* type(id) == list and len(id) > 1
IsMultiple(v) == v.k = "list" /\ Len(v.l) > 1

\* default_format_by_metadata: name from the metadata if it has one, the
\* list-valued columns the union of the metadata's and the row's.
default_format_by_metadata(new_row, m) ==
    [new_row EXCEPT !.name = IF MetaName(m) # "" THEN MetaName(m) ELSE @,
                    !.synonyms = concat(MetaSynonyms(m), @),
                    !.xrefs = concat(MetaXrefs(m), @),
                    !.pmids = concat(MetaPmids(m), @)]

\* DiseaseOntologyFormatter._format_by_metadata: metadata.get(k) or new_row.get(k)
disease_format_by_metadata(new_row, m) ==
    [new_row EXCEPT !.name = IF MetaName(m) # "" THEN MetaName(m) ELSE @,
                    !.synonyms = IF MetaSynonyms(m) # {} THEN MetaSynonyms(m) ELSE @]

\* MetaboliteOntologyFormatter._format_by_metadata
metabolite_format_by_metadata(new_row, m) ==
    [new_row EXCEPT !.name = IF MetaName(m) # "" THEN MetaName(m) ELSE @,
                    !.synonyms = IF MetaSynonyms(m) # {} THEN join_lst(MetaSynonyms(m)) ELSE @,
                    !.pmids = IF MetaPmids(m) # {} THEN join_lst(MetaPmids(m)) ELSE @,
                    !.xrefs = IF MetaXrefs(m) # {} THEN MetaXrefs(m) ELSE @]

\* GeneOntologyFormatter.format_by_metadata: default_format_by_metadata, the
\* name replaced by the Symbol; format_synonyms(...).append(...) is None, so
\* the synonyms are concat(new_row synonyms, []).
gene_format_by_metadata(new_row, m) ==
    LET r == default_format_by_metadata(new_row, m)
    IN [r EXCEPT !.name = "service symbol", !.synonyms = concat(@, {})]

\* format_by_metadata of the formatters that run default_format.
format_by_metadata(c, new_row, m) ==
    IF c = "gene" THEN gene_format_by_metadata(new_row, m)
    ELSE default_format_by_metadata(new_row, m)

\* A row and the list it is appended to.
ToFormatted(r) == [to |-> "formatted", row |-> r]
ToFailed(r) == [to |-> "failed", row |-> r]

\* default_format, the body of the loop over converted_ids (gene, compound).
default_format_one(c, cv, record) ==
    LET r1 == IF MetaTruthy(cv.metadata) THEN format_by_metadata(c, record, cv.metadata)
              ELSE record
        xrefs == concat(get_alias_ids(c, cv), r1.xrefs)
        r2 == [r1 EXCEPT !.synonyms = join_lst(@), !.pmids = join_lst(@)]
        id == cv.vals[Default(c)]
    IN IF IsNone(id)
       THEN ToFormatted([r2 EXCEPT !.id = cv.raw_id, !.xrefs = join_lst(xrefs)])
       ELSE IF IsMultiple(id)
       THEN ToFailed([r2 EXCEPT !.xrefs = join_lst(concat(Range(id.l), xrefs)),
                                !.reason = MultipleResults])
       ELSE LET v == IF id.k = "list" /\ Len(id.l) = 0 THEN cv.raw_id ELSE id.l[1]
            IN ToFormatted([r2 EXCEPT !.raw_id = cv.raw_id, !.id = v,
                                      !.resource = Default(c),
                                      !.label = OntologyTypeOf(c).type,
                                      !.xrefs = join_lst(xrefs)])

\* DiseaseOntologyFormatter.format, the body of the loop over converted_ids.
\* str(id) of an empty list is "[]".
disease_format_one(c, cv, record) ==
    LET r1 == IF MetaTruthy(cv.metadata) THEN disease_format_by_metadata(record, cv.metadata)
              ELSE record
        id == cv.vals[Default(c)]
    IN IF IsNone(id)
       THEN ToFormatted([r1 EXCEPT !.xrefs = get_alias_ids(c, cv)])
       ELSE IF IsMultiple(id)
       THEN ToFailed([r1 EXCEPT !.xrefs = Range(id.l), !.reason = MultipleResults])
       ELSE LET v == IF id.k = "list" /\ Len(id.l) = 0 THEN Id("[]", 0) ELSE id.l[1]
            IN ToFormatted([r1 EXCEPT !.raw_id = cv.raw_id, !.id = v,
                                      !.resource = Default(c),
                                      !.label = OntologyTypeOf(c).type,
                                      !.xrefs = get_alias_ids(c, cv)])

\* MetaboliteOntologyFormatter.format, the body of the loop over converted_ids.
metabolite_format_one(c, cv, record) ==
    LET r1 == IF MetaTruthy(cv.metadata)
              THEN metabolite_format_by_metadata(record, cv.metadata)
              ELSE record
        id == cv.vals[Default(c)]
    IN IF IsNone(id) \/ Len(id.l) = 0
       THEN ToFormatted([r1 EXCEPT !.xrefs = join_lst(get_alias_ids(c, cv))])
       ELSE IF IsMultiple(id)
       THEN ToFailed([r1 EXCEPT !.xrefs = join_lst(Range(id.l)), !.reason = MultipleResults])
       ELSE ToFormatted([r1 EXCEPT !.raw_id = cv.raw_id, !.id = id.l[1],
                                   !.resource = Default(c),
                                   !.label = OntologyTypeOf(c).type,
                                   !.xrefs = join_lst(get_alias_ids(c, cv))])

format_one(c, cv, record) ==
    CASE c = "disease" -> disease_format_one(c, cv, record)
      [] c = "metabolite" -> metabolite_format_one(c, cv, record)
      [] OTHER -> default_format_one(c, cv, record)

\* A rule that sends every FailedId to the failed table.
KeepsFailedNever(c, strat, prefix) == FALSE

\* prefix == self.ontology_type.default or strategy == Strategy.MIXTURE
KeepsFailed(c, strat, prefix) == prefix = Default(c) \/ strat = MIXTURE

\* The body of the loop over failed_ids: the row of the file with the id, the
\* label and the prefix set; the disease formatter also empties xrefs.  The
\* row goes to the formatted list as it is, or to the failed list with the
\* reason of the FailedId.
format_failed_one(c, strat, f, record) ==
    LET r == [record EXCEPT !.id = f.id, !.label = OntologyTypeOf(c).type,
                            !.resource = f.id.db,
                            !.xrefs = IF c = "disease" THEN {} ELSE @]
    IN IF KeepsFailed(c, strat, f.id.db) THEN ToFormatted(r)
       ELSE ToFailed([r EXCEPT !.reason = f.reason])

\* format(): the two loops.  get_raw_record raises ValueError when the file
\* has no row with the id and pd.DataFrame(records[0]) raises KeyError when it
\* has several; SymptomOntologyFormatter.format reads self._dict, which no
\* code sets, and raises AttributeError.
format(c, strat, d, cs, fs) ==
    LET one(x) == Len(get_raw_record(d, x)) = 1
        rec(x) == get_raw_record(d, x)[1]
        outs == [n \in DOMAIN cs |-> format_one(c, cs[n], rec(cs[n].raw_id))]
               \o [n \in DOMAIN fs |-> format_failed_one(c, strat, fs[n], rec(fs[n].id))]
        rows(t) == LET sel == SelectSeq(outs, LAMBDA o : o.to = t)
                   IN [n \in DOMAIN sel |-> sel[n].row]
    IN IF c = "symptom" THEN [err |-> "AttributeError", formatted |-> <<>>, failed |-> <<>>]
       ELSE IF \E n \in DOMAIN cs : Len(get_raw_record(d, cs[n].raw_id)) = 0
       THEN [err |-> "ValueError", formatted |-> <<>>, failed |-> <<>>]
       ELSE IF \E n \in DOMAIN fs : Len(get_raw_record(d, fs[n].id)) = 0
       THEN [err |-> "ValueError", formatted |-> <<>>, failed |-> <<>>]
       ELSE IF \E n \in DOMAIN cs : ~one(cs[n].raw_id)
       THEN [err |-> "KeyError", formatted |-> <<>>, failed |-> <<>>]
       ELSE IF \E n \in DOMAIN fs : ~one(fs[n].id)
       THEN [err |-> "KeyError", formatted |-> <<>>, failed |-> <<>>]
       ELSE [err |-> "", formatted |-> rows("formatted"), failed |-> rows("failed")]

\* A table that is added to the one a former call of format left.
set_tableAppend(old, new) == old \o new

\* if len(formated_data) > 0: self._formatted_data = pd.DataFrame(formated_data)
set_table(old, new) == IF Len(new) > 0 THEN new ELSE old

\* ---------------------------------------------- the snapshot (the .json file)
\* A Python object is its class and its attributes (or items); keys are the
\* names in its __dict__.  JSON has objects without a class.
ConvertedKeys(cv) ==
    {"idx", "raw_id"} \cup (IF cv.metadata.kind = "absent" THEN {} ELSE {"metadata"})
    \cup {d \in DOMAIN cv.vals : cv.vals[d].k # "absent"}
FailedKeys == {"idx", "id", "reason"}

\* The keys of a metadata dict: the fields of an Entity (disease), the dicts
\* MyChemical.parse builds, the columns of the MyGene frame.
MetaKeys(m) ==
    CASE m.kind = "entity" -> {"synonyms", "xrefs", "description", "id", "name", "resource"}
      [] m.kind = "placeholder" -> {"synonyms", "xrefs", "description", "name", "resource"}
      [] m.kind = "doc" -> {"synonyms", "xrefs", "description", "name", "pmids"}
      [] m.kind = "row" -> {"ENTREZ", "ENSEMBL", "SYMBOL", "name", "taxid", "summary"}
      [] OTHER -> {}

\* The items of self._converted_ids: ConvertedId objects, and for the symptom
\* converter the dicts themselves.
PyConverted(c, cv) ==
    [cls |-> IF c = "symptom" THEN "dict" ELSE "ConvertedId",
     keys |-> ConvertedKeys(cv),
     meta_cls |-> IF MetaTruthy(cv.metadata) THEN "dict" ELSE "NoneType",
     obj |-> cv]
PyFailed(f) == [cls |-> "FailedId", keys |-> FailedKeys, meta_cls |-> "NoneType", obj |-> f]

\* The ConversionResult convert() returns.
PyConversionResult(c, strat, cs, fs) ==
    [strategy |-> strat,
     converted_ids |-> [n \in DOMAIN cs |-> PyConverted(c, cs[n])],
     failed_ids |-> [n \in DOMAIN fs |-> PyFailed(fs[n])]]

\* CustomJSONEncoder.default: a ConvertedId or FailedId is written as its
\* __dict__, a dict as it is, the strategy as "Mixture" or "Unique".
to_json_object(o) == [keys |-> o.keys, meta_keys |-> MetaKeys(
                         IF "metadata" \in o.keys THEN o.obj.metadata ELSE NoMeta),
                      obj |-> o.obj]
to_json(cr) ==
    [strategy |-> IF cr.strategy = MIXTURE THEN "Mixture" ELSE "Unique",
     converted_ids |-> [n \in DOMAIN cr.converted_ids |-> to_json_object(cr.converted_ids[n])],
     failed_ids |-> [n \in DOMAIN cr.failed_ids |-> to_json_object(cr.failed_ids[n])]]

\* CustomJSONDecoder.object_hook for an object with the keys ks: the class of
\* what it returns.
hook_class(ks) ==
    IF {"idx", "raw_id", "metadata"} \subseteq ks THEN "ConvertedId"
    ELSE IF {"idx", "id", "reason"} \subseteq ks THEN "FailedId"
    ELSE "dict"

\* json.load calls the hook on the nested objects first: the metadata dict,
\* then the object that holds it.
from_json_object(j) ==
    [cls |-> hook_class(j.keys),
     keys |-> j.keys,
     meta_cls |-> IF j.meta_keys = {} THEN "NoneType" ELSE hook_class(j.meta_keys),
     obj |-> j.obj]
from_json(j) ==
    [strategy |-> IF j.strategy = "Mixture" THEN MIXTURE ELSE UNIQUE,
     converted_ids |-> [n \in DOMAIN j.converted_ids |-> from_json_object(j.converted_ids[n])],
     failed_ids |-> [n \in DOMAIN j.failed_ids |-> from_json_object(j.failed_ids[n])]]

\* -------------------------------------------------- the run of the formatter
\* convert() on the ids of the file, for a run in which one batch holds every
\* id and no attempt raises: the order in which the identifiers are processed
\* and the index the loop hands to each.
convert_order(c, s) == IF c \in Chem THEN sorted(s) ELSE s
convert_index(c, s, n) ==
    IF c \in Chem THEN Cardinality({m \in 1..(n - 1) : s[m].db = s[n].db}) ELSE n - 1

\* The ConvertedIds and FailedIds of that run when the service holds cands[n]
\* for the n-th identifier processed and MyDisease holds a doc for found.
convert(c, strat, s, cands, found) ==
    LET rs == [n \in DOMAIN s |-> FormatOneOf(c, strat, s[n], convert_index(c, s, n), cands[n])]
        cv == SelectSeq(rs, LAMBDA r : r.out = "converted")
        fl == SelectSeq(rs, LAMBDA r : r.out = "failed")
        cs == [n \in DOMAIN cv |-> cv[n].converted]
    IN [raised |-> \E n \in DOMAIN rs : rs[n].out = "raised",
        converted_ids |-> IF c = "disease" /\ Len(cs) > 0
                          THEN update_metadata(cs, Default(c), found) ELSE cs,
        failed_ids |-> [n \in DOMAIN fl |-> fl[n].failed]]

\* A ConvertedId of the conversion_result the caller hands to the constructor
\* (BaseOntologyFormatter.__init__): one that holds two values of the default
\* database and one value of the first other database.
Supplied(c, x, n) ==
    LET other == Difference(c, Default(c))[1]
    IN ConvertedId(n, x, NoMeta,
                   [d \in Databases(c) |->
                      IF d = Default(c) THEN ListV(Cands(d, 2))
                      ELSE IF d = other THEN ListV(Cands(d, 1))
                      ELSE AbsentV])

\* A formatter as its constructor leaves it: the file is read, and convert()
\* has returned or the caller has passed a conversion_result.
Built ==
    /\ conv \in Converters
    /\ strategy \in Strategy
    /\ batch_size = MaxBatchSize
    /\ data \in {d \in SeqsUpTo(InputRows(conv), MaxIds) :
                   \A a, b \in DOMAIN d : d[a].id = d[b].id => a = b}
    /\ input = [n \in DOMAIN data |-> data[n].id]
    /\ ids = convert_order(conv, input)
    /\ mydisease \in (IF conv = "disease" THEN SUBSET {Id(Default(conv), 1)} ELSE {{}})
    /\ \/ \E cands \in [DOMAIN ids -> Profiles(conv)] :
            /\ conv = "gene" => \A n \in DOMAIN ids : cands[n] \in GeneProfiles(conv, ids[n])
            /\ LET r == convert(conv, strategy, ids, cands, mydisease)
               IN /\ ~r.raised
                  /\ converted_ids = r.converted_ids
                  /\ failed_ids = r.failed_ids
       \/ /\ converted_ids = [n \in DOMAIN ids |-> Supplied(conv, ids[n], n - 1)]
          /\ failed_ids = <<>>
    /\ error = ""
    /\ reported = <<>>
    /\ called = TRUE
    /\ i = Len(ids)
    /\ u = 0
    /\ k = 0
    /\ attempt = 1
    /\ nres = Len(ids)
    /\ faults = 0
    /\ grouped = NoGroups
    /\ down = FALSE
    /\ cur = NoCur
    /\ formatted_data = <<>>
    /\ failed_formatted_data = <<>>
    /\ loaded = <<>>
    /\ entities = <<>>
    /\ final_df = <<>>
    /\ NoCalls

\* The formatter is constructed, no file is written.
InitFormatter ==
    /\ Built
    /\ pc = "built"
    /\ files = NoFiles
    /\ runs = <<>>

converter == <<conv, strategy, batch_size, input, ids, error, reported, called,
               converted_ids, failed_ids, i, u, k, attempt, nres, faults, grouped, down,
               mydisease, cur, tries, requests>>

\* save_to_json: the snapshot is written unless the .json file exists.
SaveToJson ==
    /\ pc = "built"
    /\ files' = [files EXCEPT !.json =
                   IF @ = <<>>
                   THEN <<to_json(PyConversionResult(conv, strategy, converted_ids, failed_ids))>>
                   ELSE @]
    /\ pc' = "saved"
    /\ UNCHANGED <<converter, data, formatted_data, failed_formatted_data, loaded,
                   entities, final_df, runs>>

\* format() of the formatter class; it may be called again on the same object.
Format ==
    /\ pc \in {"saved", "formatted"}
    /\ LET r == format(conv, strategy, data, converted_ids, failed_ids)
       IN IF r.err # ""
          THEN /\ pc' = "aborted"
               /\ error' = r.err
               /\ UNCHANGED <<formatted_data, failed_formatted_data>>
          ELSE /\ pc' = "formatted"
               /\ error' = ""
               /\ formatted_data' = set_table(formatted_data, r.formatted)
               /\ failed_formatted_data' = set_table(failed_formatted_data, r.failed)
    /\ UNCHANGED <<conv, strategy, batch_size, input, ids, reported, called,
                   converted_ids, failed_ids, i, u, k, attempt, nres, faults, grouped,
                   down, mydisease, cur, data, files, loaded, entities, final_df, calls, runs>>

\* write(filepath): raises when there is no formatted table; writes the
\* table, the .failed.tsv table if there is one, and the snapshot.
Write ==
    /\ pc = "formatted"
    /\ IF formatted_data = <<>>
       THEN /\ pc' = "aborted"
            /\ error' = "Exception"
            /\ UNCHANGED files
       ELSE /\ pc' = "written"
            /\ error' = ""
            /\ files' = [tsv |-> formatted_data,
                         failed |-> IF failed_formatted_data # <<>>
                                    THEN failed_formatted_data ELSE files.failed,
                         json |-> IF files.json = <<>>
                                  THEN <<to_json(PyConversionResult(conv, strategy,
                                                   converted_ids, failed_ids))>>
                                  ELSE files.json]
    /\ UNCHANGED <<conv, strategy, batch_size, input, ids, reported, called,
                   converted_ids, failed_ids, i, u, k, attempt, nres, faults, grouped,
                   down, mydisease, cur, data, formatted_data, failed_formatted_data,
                   loaded, entities, final_df, calls, runs>>

NextFormatter ==
    \/ SaveToJson
    \/ Format
    \/ Write

SpecFormatter == InitFormatter /\ [][NextFormatter]_vars

\* json.load(open(json_file), cls=CustomJSONDecoder) of the "ontology" command
\* run with --reformat.
Load ==
    /\ pc = "saved"
    /\ files.json # <<>>
    /\ loaded' = <<from_json(files.json[1])>>
    /\ pc' = "loaded"
    /\ UNCHANGED <<converter, data, formatted_data, failed_formatted_data, files,
                   entities, final_df, runs>>

NextSnapshot ==
    \/ SaveToJson
    \/ Load

SpecSnapshot == InitFormatter /\ [][NextSnapshot]_vars

\* ------------------------------------------------------------------------
\* Properties of the formatter (SpecFormatter).

\* format() has returned.
FormatDone == pc \in {"formatted", "written"}

\* The values a ConvertedId holds in the databases other than the default.
OtherValues(c, cv) == UNION {Range(cv.vals[d].l) : d \in Databases(c) \ {Default(c)}}

\* The ConvertedId holds no value, one value, several values of the default
\* database.
NoDefault(c, cv) == Len(cv.vals[Default(c)].l) = 0
OneDefault(c, cv) == Len(cv.vals[Default(c)].l) = 1
ManyDefault(c, cv) == Len(cv.vals[Default(c)].l) >= 2

\* The rows of table t that were built for the raw id x.
RowsFor(t, x) == {n \in DOMAIN t : t[n].raw_id = x \/ (t[n].raw_id = NaN /\ t[n].id = x)}

\* C11: for each ConvertedId, format decides the row from the value of the
\* default database.  No value: a row of the formatted table keeps the raw id
\* as id and has every value of the other databases in xrefs.  One value: a
\* row of the formatted table has that value as id, the default database as
\* resource and the entity type as label.  Two values or more: a row of the
\* failed table, and no row of the formatted table.
C11_DefaultValueDecidesRow ==
    FormatDone =>
      \A n \in DOMAIN converted_ids :
        LET cv == converted_ids[n]
            inF == RowsFor(formatted_data, cv.raw_id)
            inX == RowsFor(failed_formatted_data, cv.raw_id)
        IN /\ NoDefault(conv, cv) =>
                \E m \in inF : /\ formatted_data[m].id = cv.raw_id
                               /\ OtherValues(conv, cv) \subseteq formatted_data[m].xrefs
           /\ OneDefault(conv, cv) =>
                \E m \in inF : /\ formatted_data[m].id = cv.vals[Default(conv)].l[1]
                               /\ formatted_data[m].resource = Default(conv)
                               /\ formatted_data[m].label = OntologyTypeOf(conv).type
           /\ ManyDefault(conv, cv) => inX # {} /\ inF = {}

\* format() has built the rows of a table with a ConvertedId that has no value
\* of the default database but values of other databases, and a ConvertedId
\* that has one value of the default database.
C11_Witness ==
    /\ FormatDone
    /\ \E n \in DOMAIN converted_ids :
         /\ NoDefault(conv, converted_ids[n])
         /\ OtherValues(conv, converted_ids[n]) # {}
         /\ RowsFor(formatted_data, converted_ids[n].raw_id) # {}
    /\ \E n \in DOMAIN converted_ids : OneDefault(conv, converted_ids[n])

\* The row of the caller's file with the id x.
FileRow(x) == get_raw_record(data, x)[1]

\* Every row of table t built for the raw id x has, in each list column, every
\* item the row of the file has there.
KeepsFileItems(t, x) ==
    \A m \in RowsFor(t, x) :
      /\ FileRow(x).synonyms \subseteq t[m].synonyms
      /\ FileRow(x).pmids \subseteq t[m].pmids
      /\ FileRow(x).xrefs \subseteq t[m].xrefs

\* C12: every row format builds from a ConvertedId with metadata has, in
\* synonyms, pmids and xrefs, every item the caller's row had in that column,
\* in every entity-type formatter.
C12_MetadataIsUnioned ==
    FormatDone =>
      \A n \in DOMAIN converted_ids :
        MetaTruthy(converted_ids[n].metadata) =>
          /\ KeepsFileItems(formatted_data, converted_ids[n].raw_id)
          /\ KeepsFileItems(failed_formatted_data, converted_ids[n].raw_id)

\* C13: once the tables are written, every FailedId has a row in the failed
\* table (.failed.tsv) that carries its reason, and no row of the formatted
\* table is the row of a FailedId without a reason, whatever the strategy.
C13_EveryFailedIdInFailedTable ==
    pc = "written" =>
      \A n \in DOMAIN failed_ids :
        /\ \E m \in RowsFor(files.failed, failed_ids[n].id) :
             files.failed[m].reason = failed_ids[n].reason
        /\ \A m \in RowsFor(files.tsv, failed_ids[n].id) : files.tsv[m].reason # ""

\* C14: the row of a FailedId is in the formatted table if and only if the
\* prefix of the identifier is the default database or the strategy is
\* MIXTURE; otherwise it is in the failed table with the reason of the
\* FailedId.  It is in one table only.
C14_FailedRowRouting ==
    FormatDone =>
      \A n \in DOMAIN failed_ids :
        LET f == failed_ids[n]
            inF == RowsFor(formatted_data, f.id)
            inX == RowsFor(failed_formatted_data, f.id)
        IN IF f.id.db = Default(conv) \/ strategy = MIXTURE
           THEN inF # {} /\ inX = {}
           ELSE /\ inF = {}
                /\ inX # {}
                /\ \A m \in inX : failed_formatted_data[m].reason = f.reason

\* format() has put the row of one FailedId into the formatted table and the
\* row of another into the failed table.
C14_Witness ==
    /\ FormatDone
    /\ \E n \in DOMAIN failed_ids : RowsFor(formatted_data, failed_ids[n].id) # {}
    /\ \E n \in DOMAIN failed_ids : RowsFor(failed_formatted_data, failed_ids[n].id) # {}

\* The raw id a row of an output table was built for, and the position of
\* that id in the caller's file.
RawIdOf(r) == IF r.raw_id = NaN THEN r.id ELSE r.raw_id
FilePosition(x) == CHOOSE n \in DOMAIN data : data[n].id = x

\* C15: the rows of the formatted table are in the relative order of the
\* rows of the caller's file.
C15_FormattedKeepsFileOrder ==
    FormatDone =>
      \A a, b \in DOMAIN formatted_data :
        a < b => FilePosition(RawIdOf(formatted_data[a])) < FilePosition(RawIdOf(formatted_data[b]))

Saved == PyConversionResult(conv, strategy, converted_ids, failed_ids)

\* C17: the ConversionResult loaded from the snapshot has the strategy of the
\* saved one, its convertedIds and failedIds are equal by value to the saved
\* ones (every database field and the metadata included), and each is a
\* ConvertedId or FailedId object again.
C17_SnapshotRoundTrip ==
    pc = "loaded" =>
      /\ loaded[1].strategy = Saved.strategy
      /\ loaded[1].converted_ids = Saved.converted_ids
      /\ loaded[1].failed_ids = Saved.failed_ids
      /\ \A n \in DOMAIN loaded[1].converted_ids :
           loaded[1].converted_ids[n].cls = "ConvertedId"
      /\ \A n \in DOMAIN loaded[1].failed_ids : loaded[1].failed_ids[n].cls = "FailedId"

\* ------------------------------------------------------------------------
\* The "dedup" command (cli.py): the rows of a formatted table whose id is not
\* in the default database of their label are merged into the row of the
\* default database they match.
\*
\* A row of the frame read with dtype=str: an empty cell is nan (NoName for
\* the name, the empty set for a list column).  The comparison of exists is
\* made on lower-cased strings; the rows drawn differ by more than case.
NoName == ""
EntityRow(x, nm, lb, syn, xr) == [id |-> x, name |-> nm, label |-> lb, synonyms |-> syn, xrefs |-> xr]

\* The rows of the input file: rows of the label "Disease" with an id of the
\* default database, rows of that label with another id, and a row of a label
\* that is no key of ONTOLOGY_TYPE_DICT.
EntityRows ==
    {EntityRow(Id("MONDO", n), nm, "Disease", syn, xr) :
        n \in 1..2, nm \in {"a", "b"}, syn \in {{}, {"a"}, {"c"}},
        xr \in {{}, {Id("DOID", 1)}}}
    \cup {EntityRow(Id("DOID", 1), nm, "Disease", {}, xr) :
            nm \in {NoName, "a", "c", "z"}, xr \in {{}, {Id("UMLS", 1)}}}
    \cup {EntityRow(Id("UMLS", 1), "z", "Disease", {}, {})}
    \cup {EntityRow(Id("DOID", 1), "a", "Pathway", {}, {})}

\* ONTOLOGY_TYPE_DICT.get(label.lower())
KnownLabel(lb) == lb = "Disease"
DefaultOfLabel(lb) == DISEASE_DICT.default

\* entities["label"].unique(): the labels in the order they first appear.
Labels(es) ==
    LET F[n \in 0..Len(es)] ==
            IF n = 0 THEN <<>>
            ELSE IF es[n].label \in Range(F[n - 1]) THEN F[n - 1]
                 ELSE Append(F[n - 1], es[n].label)
    IN F[Len(es)]

\* not x.lower().startswith(default_id_type.lower())
Unofficial(r) == r.id.db # DefaultOfLabel(r.label)

\* exists(x, lst): x is one of the items of the cell; False for a cell that
\* is nan.
exists(x, lst) == lst # {} /\ x \in lst

\* exists(name, ...) for a name that is nan: `not x` is False for nan, and
\* x.lower() raises AttributeError as soon as a cell of the synonyms or name
\* column of official_df is not nan.
ExistsRaises(row, official) ==
    /\ row.name = NoName
    /\ \E n \in DOMAIN official : official[n].synonyms # {} \/ official[n].name # NoName

\* merge_ids(matched_row, row)
merge_ids(matched_row, row) == {row.id} \cup row.xrefs \cup matched_row.xrefs

\* One turn of the loop over unofficial_df.iterrows(): st holds official_df,
\* remaining_df and, for the properties, the rows merged (with the matched
\* row as it was), the rows neither merged nor matched uniquely, and for
\* every turn official_df before and after it.
dedup_row(st, row) ==
    LET off == st.official
        byXrefs == {n \in DOMAIN off : exists(row.id, off[n].xrefs)}
        byName == {n \in DOMAIN off :
                     exists(row.name, IF off[n].name = NoName THEN {} ELSE {off[n].name})}
        bySynonyms == {n \in DOMAIN off : exists(row.name, off[n].synonyms)}
        matched == IF byXrefs # {} THEN byXrefs
                   ELSE IF byName # {} THEN byName
                   ELSE bySynonyms
    IN IF st.err # "" THEN st
       ELSE IF ExistsRaises(row, off) THEN [st EXCEPT !.err = "AttributeError"]
       ELSE IF matched = {}
       THEN [st EXCEPT !.remaining = Append(@, row),
                       !.unmerged = Append(@, row),
                       !.turns = Append(@, [row |-> row, before |-> off, after |-> off])]
       ELSE IF Cardinality(matched) = 1
       THEN LET n == CHOOSE m \in matched : TRUE
                merged == [off EXCEPT ![n].xrefs = merge_ids(off[n], row)]
            IN [st EXCEPT !.official = merged,
                          !.merges = Append(@, [row |-> row, into |-> off[n]]),
                          !.turns = Append(@, [row |-> row, before |-> off, after |-> merged])]
       ELSE [st EXCEPT !.unmerged = Append(@, row),
                       !.turns = Append(@, [row |-> row, before |-> off, after |-> off])]

\* The body of the loop over the labels.
dedup_label(st, es, lb) ==
    LET sub == SelectSeq(es, LAMBDA r : r.label = lb)
        unofficial_df == SelectSeq(sub, Unofficial)
        official_df == SelectSeq(sub, LAMBDA r : ~Unofficial(r))
        start == [st EXCEPT !.official = official_df, !.remaining = <<>>,
                            !.final = @ \o official_df]
        F[n \in 0..Len(unofficial_df)] ==
            IF n = 0 THEN start ELSE dedup_row(F[n - 1], unofficial_df[n])
        end == F[Len(unofficial_df)]
    IN IF st.err # "" THEN st
       ELSE IF ~KnownLabel(lb) THEN [st EXCEPT !.final = @ \o sub]
       ELSE IF Len(sub) = 1 THEN st
       ELSE [end EXCEPT !.final = @ \o end.remaining \o end.official]

\* final_df.drop_duplicates(subset=["id", "label"], keep="last")
drop_duplicates(t) ==
    SelectSeq([n \in DOMAIN t |-> [pos |-> n, row |-> t[n]]],
              LAMBDA e : \A m \in DOMAIN t :
                           (t[m].id = e.row.id /\ t[m].label = e.row.label) => m <= e.pos)

\* The loop over the labels: final_df as it is before drop_duplicates.
dedup_labels(es) ==
    LET ls == Labels(es)
        start == [err |-> "", final |-> <<>>, official |-> <<>>, remaining |-> <<>>,
                  merges |-> <<>>, unmerged |-> <<>>, turns |-> <<>>]
        F[n \in 0..Len(ls)] == IF n = 0 THEN start ELSE dedup_label(F[n - 1], es, ls[n])
    IN F[Len(ls)]

\* dedup: the frame written, the exception that ended the command if any.
dedup(es) ==
    LET end == dedup_labels(es)
        kept == drop_duplicates(end.final)
    IN [end EXCEPT !.final = [n \in DOMAIN kept |-> kept[n].row]]

\* The input file is read.
InitDedup ==
    /\ entities \in SeqsUpTo(EntityRows, MaxEntities)
    /\ final_df = <<>>
    /\ pc = "read"
    /\ error = ""
    /\ conv = "disease"
    /\ strategy = MIXTURE
    /\ batch_size = MaxBatchSize
    /\ input = <<>>
    /\ ids = <<>>
    /\ reported = <<>>
    /\ called = FALSE
    /\ converted_ids = <<>>
    /\ failed_ids = <<>>
    /\ i = 0
    /\ u = 0
    /\ k = 0
    /\ attempt = 1
    /\ nres = 0
    /\ faults = 0
    /\ grouped = NoGroups
    /\ down = FALSE
    /\ mydisease = {}
    /\ cur = NoCur
    /\ data = <<>>
    /\ formatted_data = <<>>
    /\ failed_formatted_data = <<>>
    /\ files = NoFiles
    /\ loaded = <<>>
    /\ runs = <<>>
    /\ NoCalls

\* The dedup command runs to the end and writes the output file.
Dedup ==
    /\ pc = "read"
    /\ LET r == dedup(entities)
       IN IF r.err # ""
          THEN pc' = "aborted" /\ error' = r.err /\ UNCHANGED final_df
          ELSE pc' = "written" /\ error' = "" /\ final_df' = r.final
    /\ UNCHANGED <<conv, strategy, batch_size, input, ids, reported, called,
                   converted_ids, failed_ids, i, u, k, attempt, nres, faults, grouped,
                   down, mydisease, cur, data, formatted_data, failed_formatted_data,
                   files, loaded, entities, calls, runs>>

NextDedup ==
    \/ Dedup

SpecDedup == InitDedup /\ [][NextDedup]_vars

\* ------------------------------------------------------------------------
\* Properties of dedup (SpecDedup).

\* The rows of the output file.
Output == Range(final_df)

\* C18: when dedup finds exactly one official row that matches an unofficial
\* row, the output holds the official row (its id and label) with xrefs that
\* include its former xrefs, the xrefs of the unofficial row and the id of
\* the unofficial row, and holds no row with the id and label of the
\* unofficial row.
C18_MergeKeepsEveryXref ==
    pc = "written" =>
      \A n \in DOMAIN dedup(entities).merges :
        LET m == dedup(entities).merges[n]
        IN /\ \A r \in Output :
                (r.id = m.into.id /\ r.label = m.into.label) =>
                   (m.into.xrefs \cup m.row.xrefs \cup {m.row.id}) \subseteq r.xrefs
           /\ \E r \in Output : r.id = m.into.id /\ r.label = m.into.label
           /\ ~\E r \in Output : r.id = m.row.id /\ r.label = m.row.label

\* C19: an unofficial row that matches no official row, or whose deciding
\* rule yields more than one official row, is in the output unchanged.
C19_UnmergedRowIsKept ==
    pc = "written" =>
      \A n \in DOMAIN dedup(entities).unmerged : dedup(entities).unmerged[n] \in Output

\* C20: for every row of the input, the output holds a row with its id and
\* label, or a row of its label with an id of the default database whose
\* xrefs hold its id.
C20_NoEntityIsLost ==
    pc = "written" =>
      \A n \in DOMAIN entities :
        \/ \E r \in Output : r.id = entities[n].id /\ r.label = entities[n].label
        \/ \E r \in Output : /\ r.label = entities[n].label
                             /\ KnownLabel(r.label)
                             /\ ~Unofficial(r)
                             /\ entities[n].id \in r.xrefs

\* The official rows a rule yields for an unofficial row, official_df being
\* off: the rule on the xrefs, on the synonyms, on the name.
ByXrefs(off, row) == {n \in DOMAIN off : row.id \in off[n].xrefs}
BySynonyms(off, row) == {n \in DOMAIN off : row.name # NoName /\ row.name \in off[n].synonyms}
ByName(off, row) == {n \in DOMAIN off : row.name # NoName /\ row.name = off[n].name}

\* C21: the match rules are tried in the order xrefs, synonyms, name: an
\* unofficial row whose id is in no official xrefs, whose name is in the
\* synonyms of exactly one official row A and is the name of another
\* official row B, is merged into A, and the xrefs of B stay as they were.
C21_SynonymsBeforeName ==
    pc = "written" =>
      \A n \in DOMAIN dedup(entities).turns :
        LET t == dedup(entities).turns[n]
            A == BySynonyms(t.before, t.row)
            B == ByName(t.before, t.row)
        IN (ByXrefs(t.before, t.row) = {} /\ Cardinality(A) = 1 /\ B \ A # {}) =>
             /\ \A a \in A : t.after[a].xrefs = merge_ids(t.before[a], t.row)
             /\ \A b \in B \ A : t.after[b].xrefs = t.before[b].xrefs

\* The rows of a frame with the id and label of r, in the order of the frame.
Group(t, r) == SelectSeq(t, LAMBDA e : e.id = r.id /\ e.label = r.label)

\* The first value of the name column of a group that is not nan.
FirstName(g) ==
    IF \A n \in DOMAIN g : g[n].name = NoName THEN NoName
    ELSE g[CHOOSE n \in DOMAIN g : /\ g[n].name # NoName
                                   /\ \A m \in 1..(n - 1) : g[m].name = NoName].name

\* C22: the output holds exactly one row for every (id, label) of final_df;
\* the xrefs and the synonyms of that row are the union of those of the rows
\* of the group, and its name is the first name of the group that is not
\* nan.
C22_GroupsAreAggregated ==
    pc = "written" =>
      LET frame == dedup_labels(entities).final
      IN \A r \in Range(frame) :
           LET g == Group(frame, r)
               out == Group(final_df, r)
           IN /\ Len(out) = 1
              /\ out[1].xrefs = UNION {g[n].xrefs : n \in DOMAIN g}
              /\ out[1].synonyms = UNION {g[n].synonyms : n \in DOMAIN g}
              /\ out[1].name = FirstName(g)

\* The inputs that differ from es only in the order in which the unofficial
\* rows of a label appear.
Reorderings(es) ==
    {[n \in DOMAIN es |-> es[f[n]]] :
        f \in {g \in [DOMAIN es -> DOMAIN es] :
                 /\ \A n, m \in DOMAIN es : g[n] = g[m] => n = m
                 /\ \A n \in DOMAIN es :
                       g[n] # n => /\ KnownLabel(es[n].label)
                                   /\ es[g[n]].label = es[n].label
                                   /\ Unofficial(es[n])
                                   /\ Unofficial(es[g[n]])}}

\* The merges of a run: the unofficial row and the id of the official row it
\* was merged into.
MergesOf(es) ==
    {[row |-> dedup(es).merges[n].row, into |-> dedup(es).merges[n].into.id] :
        n \in DOMAIN dedup(es).merges}

\* C28: the rows dedup writes and the merges it makes are the same for every
\* order of the unofficial rows of a label in the input.
C28_UnofficialOrderIsIrrelevant ==
    pc = "written" =>
      \A es \in Reorderings(entities) :
        /\ dedup(es).err = ""
        /\ Range(dedup(es).final) = Output
        /\ MergesOf(es) = MergesOf(entities)

\* ------------------------------------------------------------------------
\* Properties of the metadata pass of the disease converter (Spec).

\* The ConvertedIds the pass looks up: those with a single value in the
\* default database.
Enriched == {n \in DOMAIN converted_ids : HasId(converted_ids[n], Default(conv))}
TargetOf(n) == get_id(converted_ids[n], Default(conv))

\* C23: after the metadata pass, a ConvertedId for whose identifier the
\* service returned no metadata has no metadata (null), and the pass ends
\* without an error.
C23_NoMetadataStaysAbsent ==
    (conv = "disease" /\ pc = "returned") =>
        /\ error = ""
        /\ \A n \in Enriched :
             TargetOf(n) \notin mydisease =>
                converted_ids[n].metadata.kind \in {"none", "absent"}

\* C29: when ConvertedIds of different raw ids hold the same single value in
\* the default database and the service returned metadata for that value,
\* every one of them carries that metadata after the pass.
C29_SharedValueEnrichesAll ==
    (conv = "disease" /\ pc = "returned") =>
        \A n, m \in Enriched :
          (/\ converted_ids[n].raw_id # converted_ids[m].raw_id
           /\ TargetOf(n) = TargetOf(m)
           /\ TargetOf(n) \in mydisease) =>
             converted_ids[n].metadata = Meta("entity", TargetOf(n))

\* ------------------------------------------------------------------------
\* Construction as the classes of the repository dispatch check_batch_size.
\*
\* self.check_batch_size() of __init__: CompoundOntologyConverter defines it
\* and runs default_check_batch_size; the disease, gene, symptom and
\* metabolite converters do not define it, and the method of
\* OntologyBaseConverter raises NotImplementedError.
check_batch_size(c, b) ==
    IF c = "compound" THEN (IF BatchSizeOk(c, b) THEN "" ELSE "BatchSize")
    ELSE "NotImplementedError"

\* OntologyBaseConverter.__init__ with that dispatch.
New ==
    /\ pc = "new"
    /\ LET kept == FilterStr(input)
           failed == CheckIds(kept, Databases(conv))
           e == check_batch_size(conv, batch_size)
       IN /\ ids' = kept
          /\ IF e # ""
             THEN /\ pc' = "failed"
                  /\ error' = e
                  /\ reported' = <<>>
             ELSE IF Len(failed) > 0
                  THEN /\ pc' = "failed"
                       /\ error' = "Validation"
                       /\ reported' = failed
                  ELSE /\ pc' = "ready"
                       /\ error' = ""
                       /\ reported' = <<>>
    /\ UNCHANGED <<config, tables, calls, called, converted_ids, failed_ids, i, u, k, attempt,
                   nres, faults, grouped, down, cur>>

NextNew ==
    \/ New
    \/ StartConvert
    \/ ChemFetch

SpecNew == Init /\ [][NextNew]_vars

\* C30: constructing a converter with a batch size above 500 fails before
\* any request to a resolver, and constructing a converter of any entity
\* type with a batch size of at most 500 and valid ids succeeds.
C30_BatchSizeCeiling ==
    pc # "new" =>
        /\ batch_size > MaxBatchSize => (pc = "failed" /\ ~called)
        /\ (/\ batch_size <= MaxBatchSize
            /\ \A n \in DOMAIN input : Matches(input[n], Databases(conv))) => pc # "failed"

\* ------------------------------------------------------------------------
\* The disease and symptom converters with a mapping service that may be out
\* of reach: construction, convert with its retries, the return.
InitRetry ==
    /\ Init
    /\ conv \in Oxo
    /\ strategy = MIXTURE
    /\ batch_size = 1
    /\ mydisease = {}
    /\ \A n \in DOMAIN input : Matches(input[n], Databases(conv))

NextRetry ==
    \/ Construct
    \/ StartConvert
    \/ OxoRequestFails
    \/ OxoFetch
    \/ OxoFormat
    \/ UpdateMetadata
    \/ Return

SpecRetry == InitRetry /\ [][NextRetry]_vars

\* C26: for one batch the mapping service is requested at most 5 times in
\* total before convert goes on with the result of the batch or ends with an
\* error, and after convert has ended with an error no batch is requested.
C26_AtMostFiveRequestsPerBatch ==
    /\ [](requests <= MaxAttempts)
    /\ [][pc = "aborted" => (pc' = "aborted" /\ requests' = requests /\ i' = i)]_vars

\* ------------------------------------------------------------------------
\* The loop of convert over the batches, for every converter: lists of valid
\* identifiers, one identifier to the batch, the identifiers of two batches
\* that follow each other being different.
InitBatches ==
    /\ Init
    /\ strategy = MIXTURE
    /\ batch_size = 1
    /\ mydisease = {}
    /\ \A n \in DOMAIN input : Matches(input[n], Databases(conv))
    /\ \A n \in 1..(Len(input) - 1) : input[n] # input[n + 1]

SpecBatches == InitBatches /\ [][Next]_vars

\* The identifiers of the batch at offset i.
InBatch == {ids[p] : p \in (i + 1)..Min(i + batch_size, Len(ids))}

\* C25: convert works on one batch at a time and in the order of the list:
\* the offset i only moves on by one batch, and it moves on in a step that
\* ends the work on a batch without an error; every ConvertedId and FailedId
\* is appended for an identifier of the batch at the offset i, and every
\* request (a step taken where convert fetches) is made at that offset, so
\* all requests, retries and appends of a batch come before the first
\* request of the next.
C25_BatchesAreSequential ==
    [][/\ i' = i \/ (i' = i + batch_size /\ pc' = "fetch" /\ attempt' = 1 /\ error' = "")
       /\ Len(converted_ids') > Len(converted_ids) =>
             (i' \in {i, i + batch_size} /\ Last(converted_ids').raw_id \in InBatch)
       /\ Len(failed_ids') > Len(failed_ids) =>
             (i' \in {i, i + batch_size} /\ Last(failed_ids').id \in InBatch)
       /\ (pc = "fetch" /\ pc' # "returned") => (i < Len(ids) /\ i' = i)]_vars

\* The second batch is asked again after the first batch was recorded.
C25_Witness ==
    /\ pc = "format"
    /\ batch_size = 1
    /\ i = 1
    /\ attempt = 2
    /\ Len(converted_ids) + Len(failed_ids) >= 1

\* C27: in the disease and symptom converters no identifier is recorded in
\* converted_ids and failed_ids more often than it is in the list, also when
\* a batch is retried after a part of it was recorded.
C27_RetryRecordsOnce ==
    conv \in Oxo =>
      \A x \in Range(ids) : Count(RawIds, x) + Count(FailedRawIds, x) <= Count(ids, x)

\* ------------------------------------------------------------------------
\* Runs of the "ontology" command (cli.py) that are given the same output
\* file and run at the same time, each in a process of its own.  Each run
\* reads the same input file and gets the same conversion result; files is
\* what the runs share.  A run is where it is (at), whether it was started
\* with --reformat, and how often it has written the snapshot.
Runs == 1..MaxRuns

\* The snapshot a run dumps.
Snapshot == to_json(PyConversionResult(conv, strategy, converted_ids, failed_ids))

InitRuns ==
    /\ Built
    /\ conv = "gene"
    /\ strategy = MIXTURE
    /\ Len(data) <= 1
    /\ pc = "runs"
    /\ files \in {NoFiles, [NoFiles EXCEPT !.json = <<Snapshot>>]}
    /\ runs \in [Runs -> {[at |-> "start", reformat |-> f, wrote |-> 0] : f \in BOOLEAN}]

\* ontology(): without --reformat the command returns when the .json file
\* exists, with --reformat when it does not exist (otherwise it loads it);
\* then the formatter is constructed.
RunStart(r) ==
    /\ runs[r].at = "start"
    /\ runs' = [runs EXCEPT ![r].at =
                  IF (files.json # <<>>) = runs[r].reformat THEN "built" ELSE "returned"]
    /\ UNCHANGED <<converter, pc, data, formatted_data, failed_formatted_data, files,
                   loaded, entities, final_df>>

\* save_to_json: json_file.exists() is evaluated.
RunExists(r) ==
    /\ runs[r].at = "built"
    /\ runs' = [runs EXCEPT ![r].at = IF files.json # <<>> THEN "saved" ELSE "open"]
    /\ UNCHANGED <<converter, pc, data, formatted_data, failed_formatted_data, files,
                   loaded, entities, final_df>>

\* save_to_json: open(json_file, "w") and json.dump, after exists() was False.
RunDump(r) ==
    /\ runs[r].at = "open"
    /\ files' = [files EXCEPT !.json = <<Snapshot>>]
    /\ runs' = [runs EXCEPT ![r].at = "saved", ![r].wrote = @ + 1]
    /\ UNCHANGED <<converter, pc, data, formatted_data, failed_formatted_data,
                   loaded, entities, final_df>>

\* format() and write(): the tables are written, and save_to_json is run
\* again.
RunWrite(r) ==
    /\ runs[r].at = "saved"
    /\ LET t == format(conv, strategy, data, converted_ids, failed_ids)
       IN IF t.err # "" \/ t.formatted = <<>>
          THEN /\ runs' = [runs EXCEPT ![r].at = "aborted"]
               /\ UNCHANGED files
          ELSE /\ runs' = [runs EXCEPT ![r].at = "done",
                                       ![r].wrote = IF files.json = <<>> THEN @ + 1 ELSE @]
               /\ files' = [tsv |-> t.formatted,
                            failed |-> IF t.failed # <<>> THEN t.failed ELSE files.failed,
                            json |-> IF files.json = <<>> THEN <<Snapshot>> ELSE files.json]
    /\ UNCHANGED <<converter, pc, data, formatted_data, failed_formatted_data,
                   loaded, entities, final_df>>

NextRuns ==
    \/ \E r \in Runs : RunStart(r)
    \/ \E r \in Runs : RunExists(r)
    \/ \E r \in Runs : RunDump(r)
    \/ \E r \in Runs : RunWrite(r)

SpecRuns == InitRuns /\ [][NextRuns]_vars

\* C24: of the runs given the same output path, however their steps
\* interleave, at most one writes the snapshot file, and no run writes it
\* when it exists.
C24_OneRunWritesSnapshot ==
    Cardinality({r \in Runs : runs[r].wrote > 0}) <= 1

====
